---- MODULE Spec2Model ----
(***************************************************************************)
(* EfficientAd lightning module (anomalib): the calibration hooks, the      *)
(* training step's auxiliary iterator, the optimizer planning and the      *)
(* quantile pass, as a state machine driven by the trainer's fit loop.     *)
(*                                                                         *)
(* Numbers.  Activations and anomaly maps are small integers, so every sum *)
(* the code takes in float64 is exact.  A channel mean is the reduced      *)
(* fraction <<num, den>>; a channel std is kept as the fraction under the  *)
(* square root.  A quantile q is kept as the integer 200 * q, which is     *)
(* exact for the linear interpolation at 0.9 and 0.995.                    *)
(***************************************************************************)
EXTENDS Integers, Sequences, FiniteSets, TLC

VARIABLES
    pc,                 \* where the trainer is: idle, configured, train, val, failed, ...
    op,                 \* the hook that ran last
    error,              \* the exception that ended the run, or "none"
    run,                \* number of trainer.fit calls started
    max_epochs,         \* trainer.max_epochs (negative: unset)
    max_steps,          \* trainer.max_steps (negative: unset)
    train_loader,       \* trainer.datamodule.train_dataloader(): the teacher activations per batch
    val_loader,         \* trainer.datamodule.val_dataloader(): batches of images and labels
    aux_n,              \* number of batches of self.imagenet_loader
    imagenet_iterator,  \* self.imagenet_iterator: the batches it has yet to yield
    batch_imagenet,     \* the auxiliary batch the last training_step drew (0: none yet)
    aux_restarts,       \* how many times training_step rebuilt the iterator
    mean_std,           \* self.model.mean_std
    quantiles,          \* self.model.quantiles
    w,                  \* version of the student/autoencoder weights
    global_step,        \* training steps of the current run
    epoch,              \* completed epochs of the current run
    batch_idx,          \* batches done in the current epoch
    val_idx,            \* validation batches done in the current validation phase
    val_due,            \* a training step ran since the last validation phase
    optim,              \* what configure_optimizers returned
    last_epoch,         \* the scheduler's step counter
    lr_exp,             \* the learning rate is lr * gamma^lr_exp
    stat_passes,        \* passes of teacher_channel_mean_std over the training data
    val_passes,         \* passes of map_norm_quantiles over the validation data
    writes,             \* update() calls on the normalization state in the current run
    maps_st,            \* map_norm_quantiles' list maps_st at the end of its last pass
    maps_ae,            \* map_norm_quantiles' list maps_ae at the end of its last pass
    stats_acc,          \* teacher_channel_mean_std's n, chanel_sum, chanel_sum_sqr when its last pass ended
    loss_model,         \* the three losses self.model returns in a training step
    logged,             \* the metrics the last training_step logged
    loss,               \* the loss the last training_step returned
    aux_draws,          \* auxiliary batches drawn since construction
    aux_window          \* the batches drawn from the current iterator, in order

vars == <<pc, op, error, run, max_epochs, max_steps, train_loader, val_loader, aux_n,
          imagenet_iterator, batch_imagenet, aux_restarts, mean_std, quantiles, w,
          global_step, epoch, batch_idx, val_idx, val_due, optim, last_epoch, lr_exp,
          stat_passes, val_passes, writes, maps_st, maps_ae, stats_acc, loss_model,
          logged, loss, aux_draws, aux_window>>

(***************************************************************************)
(* Bounds                                                                  *)
(***************************************************************************)
MaxRuns == 2           \* trainer.fit calls on the same model
MaxEpochsRun == 2      \* max_epochs of the fit loop, when set
MaxStepsRun == 3       \* max_steps of the fit loop, when set
MaxAux == 2            \* batches of the auxiliary loader
MaxW == 1              \* weight versions the training steps go through
MaxEpochs == 6         \* max_epochs offered to configure_optimizers
MaxSteps == 45         \* max_steps offered to configure_optimizers
MaxStepsPerEpoch == 7  \* len(train_dataloader()) offered to configure_optimizers
MaxSamples == 3        \* samples of a validation set offered to map_norm_quantiles
MaxPixel == 1          \* largest pixel value of a validation image
NumChannels == 2       \* channels of the teacher's output
MaxAct == 2            \* scale of the activations offered to teacher_channel_mean_std
MaxPositions == 3      \* positions of a training set offered to teacher_channel_mean_std
MaxBigAct == 18        \* largest activation of the training sets whose squares round
MaxLoss == 6           \* largest component loss, in halves
MantissaBits == 8      \* significant bits of the model's float32 (24 in torch)

(***************************************************************************)
(* Arithmetic helpers                                                      *)
(***************************************************************************)
Min(a, b) == IF a <= b THEN a ELSE b

Abs(a) == IF a < 0 THEN -a ELSE a

RECURSIVE Gcd(_, _)
Gcd(a, b) == IF b = 0 THEN a ELSE Gcd(b, a % b)

\* The fraction a / b (b > 0) in lowest terms.
Frac(a, b) ==
    LET g == Gcd(Abs(a), b)
    IN  <<a \div g, b \div g>>

RECURSIVE SumSeq(_)
SumSeq(s) == IF s = <<>> THEN 0 ELSE Head(s) + SumSeq(Tail(s))

RECURSIVE Flatten(_)
Flatten(ss) == IF ss = <<>> THEN <<>> ELSE Head(ss) \o Flatten(Tail(ss))

RECURSIVE Insert(_, _)
Insert(x, s) ==
    IF s = <<>> THEN <<x>>
    ELSE IF x <= Head(s) THEN <<x>> \o s
    ELSE <<Head(s)>> \o Insert(x, Tail(s))

RECURSIVE SortAsc(_)
SortAsc(s) == IF s = <<>> THEN <<>> ELSE Insert(Head(s), SortAsc(Tail(s)))

\* The smallest power of two, times step, that leaves v fewer than MantissaBits bits.
RECURSIVE Ulp(_, _)
Ulp(v, step) == IF v < (2 ^ MantissaBits) * step THEN step ELSE Ulp(v, 2 * step)

\* An integer as a float32 tensor holds it: rounded to MantissaBits significant
\* bits, ties to the even mantissa.
Round32(x) ==
    LET v == Abs(x)
        step == Ulp(v, 1)
        q == v \div step
        r == v % step
        up == 2 * r > step \/ (2 * r = step /\ q % 2 = 1)
        m == (IF up THEN q + 1 ELSE q) * step
    IN  IF x < 0 THEN -m ELSE m

\* The positive fraction a / b rounded to MantissaBits significant bits, ties
\* to the even mantissa, as a fraction in lowest terms.
RECURSIVE Float32Pos(_, _)
Float32Pos(a, b) ==
    IF a >= (2 ^ MantissaBits) * b
    THEN LET h == Float32Pos(a, 2 * b) IN Frac(2 * h[1], h[2])
    ELSE IF a < (2 ^ (MantissaBits - 1)) * b
    THEN LET d == Float32Pos(2 * a, b) IN Frac(d[1], 2 * d[2])
    ELSE LET q == a \div b
             r == a % b
             up == 2 * r > b \/ (2 * r = b /\ q % 2 = 1)
         IN  <<IF up THEN q + 1 ELSE q, 1>>

\* tensor.float() of a float64 value: the fraction fr as a float32 holds it.
Float32(fr) ==
    IF fr[1] = 0 THEN <<0, 1>>
    ELSE LET m == Float32Pos(Abs(fr[1]), fr[2])
         IN  IF fr[1] < 0 THEN <<-m[1], m[2]>> ELSE m

Perms(n) == {p \in [1..n -> 1..n] : \A i, j \in 1..n : i # j => p[i] # p[j]}

(***************************************************************************)
(* The normalization state of the torch model                              *)
(***************************************************************************)
Unset == <<>>

UnsetMeanStd == [mean |-> Unset, std |-> Unset]

UnsetQuantiles == [qa_st |-> Unset, qb_st |-> Unset, qa_ae |-> Unset, qb_ae |-> Unset]

\* EfficientAdModel.is_set: a parameter dictionary counts as set once a value is.
is_set(p_dic) == \E k \in DOMAIN p_dic : p_dic[k] # Unset

\* The student and autoencoder maps of one image under weights wv
\* (EfficientAdModel.forward with normalize=False).
Forward(img, wv) == [map_st |-> <<img + wv>>, map_ae |-> <<2 * img + wv>>]

(***************************************************************************)
(* teacher_channel_mean_std                                                *)
(* A batch of the training loader is the teacher's output y for it: a      *)
(* sequence of (batch, height, width) positions, each a sequence of        *)
(* NumChannels activations.                                                *)
(***************************************************************************)
Channels == 1..NumChannels

NoArrays == [defined |-> FALSE, n |-> <<>>, chanel_sum |-> <<>>, chanel_sum_sqr |-> <<>>]

StatsUpdate_CountBatches(acc, y) ==
    LET a0 == IF acc.defined THEN acc
              ELSE [defined |-> TRUE,
                    n |-> [c \in Channels |-> 0],
                    chanel_sum |-> [c \in Channels |-> 0],
                    chanel_sum_sqr |-> [c \in Channels |-> 0]]
    IN  [defined |-> TRUE,
         n |-> [c \in Channels |-> a0.n[c] + 1],
         chanel_sum |-> [c \in Channels |->
             a0.chanel_sum[c] + Round32(SumSeq([p \in 1..Len(y) |-> y[p][c]]))],
         chanel_sum_sqr |-> [c \in Channels |->
             a0.chanel_sum_sqr[c]
                 + Round32(SumSeq([p \in 1..Len(y) |-> Round32(y[p][c] * y[p][c])]))]]

\* One iteration of the loop: the lazy initialisation and the three updates.
\* y and y**2 are float32 tensors and torch.sum returns a float32; the
\* accumulators are float64 (int64 for n), wide enough to be exact here.
StatsUpdate(acc, y) ==
    LET a0 == IF acc.defined THEN acc
              ELSE [defined |-> TRUE,
                    n |-> [c \in Channels |-> 0],
                    chanel_sum |-> [c \in Channels |-> 0],
                    chanel_sum_sqr |-> [c \in Channels |-> 0]]
    IN  [defined |-> TRUE,
         n |-> [c \in Channels |-> a0.n[c] + Len(y)],
         chanel_sum |-> [c \in Channels |->
             a0.chanel_sum[c] + Round32(SumSeq([p \in 1..Len(y) |-> y[p][c]]))],
         chanel_sum_sqr |-> [c \in Channels |->
             a0.chanel_sum_sqr[c]
                 + Round32(SumSeq([p \in 1..Len(y) |-> Round32(y[p][c] * y[p][c])]))]]

RECURSIVE StatsLoop(_, _)
StatsLoop(acc, batches) ==
    IF batches = <<>> THEN acc
    ELSE StatsLoop(StatsUpdate(acc, Head(batches)), Tail(batches))

NaN == <<0, 0>>

\* torch.sqrt: NaN for a negative argument; a std is kept as the fraction
\* under the root.
TorchSqrt(fr) == IF fr[1] < 0 THEN NaN ELSE fr

\* "(chanel_sum_sqr / n) - (channel_mean**2)" as one fraction.
Variance(acc, c) ==
    Frac(acc.chanel_sum_sqr[c] * acc.n[c] - acc.chanel_sum[c] * acc.chanel_sum[c],
         acc.n[c] * acc.n[c])

teacher_channel_mean_std_ZeroOnEmpty(dataloader) ==
    LET acc == StatsLoop(NoArrays, dataloader)
    IN  IF ~acc.defined
        THEN [error |-> "none", acc |-> acc,
              mean |-> [c \in Channels |-> <<0, 1>>],
              std |-> [c \in Channels |-> <<0, 1>>]]
        ELSE [error |-> "none", acc |-> acc,
              mean |-> [c \in Channels |-> Float32(Frac(acc.chanel_sum[c], acc.n[c]))],
              std |-> [c \in Channels |-> TorchSqrt(Variance(acc, c))]]

\* The result, or the AssertionError of "assert n is not None"; acc is the
\* accumulators as the loop left them.  The mean is converted by .float(); the
\* std is kept exactly, as the value under the root.
teacher_channel_mean_std(dataloader) ==
    LET acc == StatsLoop(NoArrays, dataloader)
    IN  IF ~acc.defined
        THEN [error |-> "AssertionError", acc |-> acc]
        ELSE [error |-> "none", acc |-> acc,
              mean |-> [c \in Channels |-> Float32(Frac(acc.chanel_sum[c], acc.n[c]))],
              std |-> [c \in Channels |-> TorchSqrt(Variance(acc, c))]]

(***************************************************************************)
(* map_norm_quantiles and _get_quantiles_of_maps                           *)
(* A batch of the validation loader is [image |-> images, label |-> labels]*)
(* of equal length; an image is one pixel value.                           *)
(***************************************************************************)
GoodLabel_Any(label) == TRUE

\* "if label == 0": only good images of the validation set are used.
GoodLabel(label) == label = 0

\* The inner loop over zip(batch["image"], batch["label"]): the maps appended
\* to maps_st and maps_ae, in order.
RECURSIVE CollectBatch(_, _, _, _)
CollectBatch(images, labels, wv, got) ==
    IF images = <<>> THEN got
    ELSE LET output == Forward(Head(images), wv)
             next == IF GoodLabel(Head(labels))
                     THEN [st |-> Append(got.st, output.map_st),
                           ae |-> Append(got.ae, output.map_ae)]
                     ELSE got
         IN  CollectBatch(Tail(images), Tail(labels), wv, next)

\* The outer loop over the dataloader.
RECURSIVE CollectMaps(_, _, _)
CollectMaps(dataloader, wv, got) ==
    IF dataloader = <<>> THEN got
    ELSE CollectMaps(Tail(dataloader), wv,
                     CollectBatch(Head(dataloader).image, Head(dataloader).label, wv, got))

\* torch.quantile(maps_flat, q) with q = qnum / 200, linear interpolation
\* between the two nearest order statistics; the value is 200 times the quantile.
Quantile200(maps_flat, qnum) ==
    LET s == SortAsc(maps_flat)
        pos == qnum * (Len(s) - 1)
        lo == pos \div 200
        fr == pos % 200
        hi == IF fr = 0 THEN lo ELSE lo + 1
    IN  200 * s[lo + 1] + (s[hi + 1] - s[lo + 1]) * fr

\* torch.cat(maps) raises on an empty list; reduce_tensor_elems flattens (and
\* subsamples only above 2^24 elements, which no bounded input reaches).
get_quantiles_of_maps(maps) ==
    IF maps = <<>>
    THEN [error |-> "RuntimeError"]
    ELSE LET maps_flat == Flatten(maps)
         IN  [error |-> "none",
              qa |-> <<Quantile200(maps_flat, 180)>>,
              qb |-> <<Quantile200(maps_flat, 199)>>]

map_norm_quantiles(dataloader, wv) ==
    LET got == CollectMaps(dataloader, wv, [st |-> <<>>, ae |-> <<>>])
        q_st == get_quantiles_of_maps(got.st)
        q_ae == get_quantiles_of_maps(got.ae)
    IN  IF q_st.error # "none" THEN [error |-> q_st.error, maps_st |-> got.st, maps_ae |-> got.ae]
        ELSE IF q_ae.error # "none" THEN [error |-> q_ae.error, maps_st |-> got.st, maps_ae |-> got.ae]
        ELSE [error |-> "none", maps_st |-> got.st, maps_ae |-> got.ae,
              q |-> [qa_st |-> q_st.qa, qa_ae |-> q_ae.qa, qb_st |-> q_st.qb, qb_ae |-> q_ae.qb]]

(***************************************************************************)
(* configure_optimizers                                                    *)
(***************************************************************************)
NoFiniteBound_Either(me, ms) == me < 0 \/ ms < 0

\* "if self.trainer.max_epochs < 0 and self.trainer.max_steps < 0": raise ValueError.
NoFiniteBound(me, ms) == me < 0 /\ ms < 0

NumSteps_EpochsOnly(me, ms, steps_per_epoch) ==
    IF me < 0 THEN ms ELSE me * steps_per_epoch

\* The three branches that determine num_steps.
NumSteps(me, ms, steps_per_epoch) ==
    IF me < 0 THEN ms
    ELSE IF ms < 0 THEN me * steps_per_epoch
    ELSE Min(ms, me * steps_per_epoch)

\* step_size=int(0.95 * num_steps): the float product truncated, which is
\* floor(95 * num_steps / 100) for every num_steps up to 200000.
StepSize(num_steps) == (95 * num_steps) \div 100

NoOptim == [error |-> "none", built |-> FALSE, num_steps |-> 0, step_size |-> 0]

configure_optimizers(me, ms, steps_per_epoch) ==
    IF NoFiniteBound(me, ms)
    THEN [error |-> "ValueError", built |-> FALSE, num_steps |-> 0, step_size |-> 0]
    ELSE LET num_steps == NumSteps(me, ms, steps_per_epoch)
         IN  [error |-> "none", built |-> TRUE, num_steps |-> num_steps,
              step_size |-> StepSize(num_steps)]

\* StepLR.step(): last_epoch += 1, then get_lr() multiplies by gamma when
\* last_epoch % step_size == 0, which divides by zero for step_size = 0.
StepLRStep(sched) ==
    LET k == sched.last_epoch + 1
    IN  IF sched.step_size = 0
        THEN [error |-> "ZeroDivisionError", last_epoch |-> k, lr_exp |-> sched.lr_exp]
        ELSE [error |-> "none", last_epoch |-> k,
              lr_exp |-> IF k % sched.step_size = 0 THEN sched.lr_exp + 1 ELSE sched.lr_exp]

(***************************************************************************)
(* The auxiliary (imagenette) stream                                       *)
(***************************************************************************)
\* iter(self.imagenet_loader) with shuffle=True: the batches 1..n in any order.
ShuffledIterators(n) == {[i \in 1..n |-> p[i]] : p \in Perms(n)}

NewIterator_Stale(n, it) == {it}

\* "self.imagenet_iterator = iter(self.imagenet_loader)" in the except branch.
NewIterator(n, it) == ShuffledIterators(n)

NextAuxBatch_AlwaysFresh(n, it) ==
    {IF fresh = <<>>
     THEN [error |-> "StopIteration", batch |-> 0, it |-> fresh, restarted |-> TRUE]
     ELSE [error |-> "none", batch |-> Head(fresh), it |-> Tail(fresh), restarted |-> TRUE]
     : fresh \in NewIterator(n, it)}

\* The try/except around next(self.imagenet_iterator): every outcome of one draw.
NextAuxBatch(n, it) ==
    IF it # <<>>
    THEN {[error |-> "none", batch |-> Head(it), it |-> Tail(it), restarted |-> FALSE]}
    ELSE {IF fresh = <<>>
          THEN [error |-> "StopIteration", batch |-> 0, it |-> fresh, restarted |-> TRUE]
          ELSE [error |-> "none", batch |-> Head(fresh), it |-> Tail(fresh), restarted |-> TRUE]
          : fresh \in NewIterator(n, it)}

(***************************************************************************)
(* The losses of a training step, in halves (4 is 2.0)                     *)
(***************************************************************************)
NoLogged == [train_st |-> <<>>, train_ae |-> <<>>, train_stae |-> <<>>, train_loss |-> <<>>]

TotalLoss_WithoutStae(loss_st, loss_ae, loss_stae) == loss_st + loss_ae

\* "loss = loss_st + loss_ae + loss_stae"
TotalLoss(loss_st, loss_ae, loss_stae) == loss_st + loss_ae + loss_stae

\* The four self.log calls; .item() hands the tensor's value over as it is.
LogLosses(loss_st, loss_ae, loss_stae, total) ==
    [train_st |-> <<loss_st>>, train_ae |-> <<loss_ae>>, train_stae |-> <<loss_stae>>,
     train_loss |-> <<total>>]

StubLosses == {<<4, 6, 3>>}

(***************************************************************************)
(* Inputs                                                                  *)
(***************************************************************************)
\* The teacher's output for a batch of two positions.
Act(k) == <<[c \in Channels |-> k + c], [c \in Channels |-> 2 * k - c]>>

TrainLoaders == {<<>>, <<Act(1)>>, <<Act(1), Act(2)>>}

OneGood == <<[image |-> <<0>>, label |-> <<0>>]>>

Mixed == <<[image |-> <<0, 1>>, label |-> <<0, 1>>], [image |-> <<1>>, label |-> <<0>>]>>

OnlyAnomalous == <<[image |-> <<1>>, label |-> <<1>>]>>

FewValLoaders == {OneGood, Mixed, OnlyAnomalous}

TrainerConfigs ==
    {<<-1, -1>>, <<-1, MaxStepsRun>>, <<MaxEpochsRun, -1>>, <<MaxEpochsRun, MaxStepsRun>>}

\* The normalization state a checkpoint of an earlier, calibrated run holds.
RestoredMeanStd ==
    LET r == teacher_channel_mean_std(<<Act(2)>>)
    IN  [mean |-> r.mean, std |-> r.std]

RestoredQuantiles == map_norm_quantiles(OneGood, 0).q

\* A freshly constructed model, or one loaded from a calibrated checkpoint.
RestoredStates ==
    {<<UnsetMeanStd, UnsetQuantiles>>,
     <<RestoredMeanStd, RestoredQuantiles>>}

(***************************************************************************)
(* The state after construction                                            *)
(***************************************************************************)
InitWith(configs, trainLoaders, valLoaders, auxSizes, restored, lossSets) ==
    /\ pc = "idle"
    /\ op = "init"
    /\ error = "none"
    /\ run = 0
    /\ \E cfg \in configs : max_epochs = cfg[1] /\ max_steps = cfg[2]
    /\ train_loader \in trainLoaders
    /\ val_loader \in valLoaders
    /\ aux_n \in auxSizes
    /\ imagenet_iterator \in ShuffledIterators(aux_n)
    /\ batch_imagenet = 0
    /\ aux_restarts = 0
    /\ \E st \in restored : mean_std = st[1] /\ quantiles = st[2]
    /\ w = 0
    /\ global_step = 0
    /\ epoch = 0
    /\ batch_idx = 0
    /\ val_idx = 0
    /\ val_due = FALSE
    /\ optim = NoOptim
    /\ last_epoch = 0
    /\ lr_exp = 0
    /\ stat_passes = 0
    /\ val_passes = 0
    /\ writes = 0
    /\ maps_st = <<>>
    /\ maps_ae = <<>>
    /\ stats_acc = NoArrays
    /\ loss_model \in lossSets
    /\ logged = NoLogged
    /\ loss = <<>>
    /\ aux_draws = 0
    /\ aux_window = <<>>

Init ==
    InitWith(TrainerConfigs, TrainLoaders, FewValLoaders, 1..MaxAux, RestoredStates, StubLosses)

(***************************************************************************)
(* The hooks, in the order the trainer's fit loop calls them               *)
(***************************************************************************)
\* Lightning stops training when either max_steps or max_epochs is reached.
num_sanity_val_steps_Default == 1 + 1

\* trainer_arguments: {"num_sanity_val_steps": 0}.  A trainer given a positive
\* number runs a validation phase of that many batches after
\* configure_optimizers and before on_train_start.
num_sanity_val_steps == 0

\* Where the trainer stands when on_train_start is due.
TrainStartDue ==
    IF num_sanity_val_steps > 0 THEN pc = "sanity_done" ELSE pc = "configured"

Stopped ==
    \/ max_steps >= 0 /\ global_step >= max_steps
    \/ max_epochs >= 0 /\ epoch >= max_epochs
    \/ train_loader = <<>>

\* trainer.fit: a new run begins with configure_optimizers.
FitStart ==
    /\ pc = "idle" \/ (pc = "train" /\ Stopped)
    /\ run < MaxRuns
    /\ LET r == configure_optimizers(max_epochs, max_steps, Len(train_loader))
       IN  /\ optim' = r
           /\ error' = r.error
           /\ pc' = IF r.error = "none" THEN "configured" ELSE "failed"
    /\ run' = run + 1
    /\ op' = "configure_optimizers"
    /\ UNCHANGED <<stats_acc, loss_model, logged, loss, aux_draws, aux_window>>
    /\ global_step' = 0
    /\ epoch' = 0
    /\ batch_idx' = 0
    /\ val_due' = FALSE
    /\ writes' = 0
    /\ last_epoch' = 0
    /\ lr_exp' = 0
    /\ UNCHANGED <<max_epochs, max_steps, train_loader, val_loader, aux_n, imagenet_iterator,
                   batch_imagenet, aux_restarts, mean_std, quantiles, w, val_idx,
                   stat_passes, val_passes, maps_st, maps_ae>>

ChannelStatsMissing_Always(ms) == TRUE

ChannelStatsMissing_Never(ms) == FALSE

\* "if not self.model.is_set(self.model.mean_std)"
ChannelStatsMissing(ms) == ~is_set(ms)

UpdateMeanStd_MeanOnly(old, r) == [old EXCEPT !.mean = r.mean]

\* "self.model.mean_std.update(channel_mean_std)"
UpdateMeanStd(old, r) == [old EXCEPT !.mean = r.mean, !.std = r.std]

OnTrainStart ==
    /\ TrainStartDue
    /\ op' = "on_train_start"
    /\ IF ChannelStatsMissing(mean_std)
       THEN LET r == teacher_channel_mean_std(train_loader)
            IN  /\ stat_passes' = stat_passes + 1
                /\ stats_acc' = r.acc
                /\ IF r.error = "none"
                   THEN /\ mean_std' = UpdateMeanStd(mean_std, r)
                        /\ writes' = writes + 1
                        /\ pc' = "train"
                        /\ error' = error
                   ELSE /\ pc' = "failed"
                        /\ error' = r.error
                        /\ UNCHANGED <<mean_std, writes>>
       ELSE /\ pc' = "train"
            /\ UNCHANGED <<mean_std, writes, stat_passes, error, stats_acc>>
    /\ UNCHANGED <<loss_model, logged, loss, aux_draws, aux_window>>
    /\ UNCHANGED <<run, max_epochs, max_steps, train_loader, val_loader, aux_n,
                   imagenet_iterator, batch_imagenet, aux_restarts, quantiles, w,
                   global_step, epoch, batch_idx, val_idx, val_due, optim, last_epoch,
                   lr_exp, val_passes, maps_st, maps_ae>>

\* One training step; the trainer then applies the optimizer step (new weights)
\* and closes the epoch after the last batch of the training loader.
TrainingStep ==
    /\ pc = "train"
    /\ ~Stopped
    /\ op' = "training_step"
    /\ \E d \in NextAuxBatch(aux_n, imagenet_iterator) :
          /\ imagenet_iterator' = d.it
          /\ aux_restarts' = IF d.restarted THEN aux_restarts + 1 ELSE aux_restarts
          /\ IF d.error = "none"
             THEN /\ batch_imagenet' = d.batch
                  /\ aux_draws' = aux_draws + 1
                  /\ aux_window' = IF d.restarted THEN <<d.batch>>
                                   ELSE Append(aux_window, d.batch)
                  /\ LET total == TotalLoss(loss_model[1], loss_model[2], loss_model[3])
                     IN  /\ logged' = LogLosses(loss_model[1], loss_model[2], loss_model[3],
                                                total)
                         /\ loss' = <<total>>
                  /\ w' = Min(w + 1, MaxW)
                  /\ global_step' = global_step + 1
                  /\ IF batch_idx + 1 = Len(train_loader)
                     THEN epoch' = epoch + 1 /\ batch_idx' = 0
                     ELSE epoch' = epoch /\ batch_idx' = batch_idx + 1
                  /\ val_due' = TRUE
                  /\ UNCHANGED <<pc, error>>
             ELSE /\ pc' = "failed"
                  /\ error' = d.error
                  /\ UNCHANGED <<batch_imagenet, w, global_step, epoch, batch_idx, val_due,
                                 aux_draws, aux_window, logged, loss>>
    /\ UNCHANGED <<run, max_epochs, max_steps, train_loader, val_loader, aux_n, mean_std,
                   quantiles, val_idx, optim, last_epoch, lr_exp, stat_passes, val_passes,
                   writes, maps_st, maps_ae, stats_acc, loss_model>>

UpdateQuantiles_StudentOnly(old, q) == [old EXCEPT !.qa_st = q.qa_st, !.qb_st = q.qb_st]

\* "self.model.quantiles.update(map_norm_quantiles)"
UpdateQuantiles(old, q) ==
    [old EXCEPT !.qa_st = q.qa_st, !.qa_ae = q.qa_ae, !.qb_st = q.qb_st, !.qb_ae = q.qb_ae]

QuantilesMissing_Check(qs) == ~is_set(qs)

\* on_validation_start has no condition: the pass runs whatever the quantiles hold.
QuantilesMissing(qs) == TRUE

\* A validation phase opens, after at least one training step since the last
\* one, or as the sanity check of a trainer that asks for one.
OnValidationStart ==
    /\ (pc = "train" /\ val_due) \/ (pc = "configured" /\ num_sanity_val_steps > 0)
    /\ op' = "on_validation_start"
    /\ UNCHANGED <<stats_acc, loss_model, logged, loss, aux_draws, aux_window>>
    /\ val_due' = FALSE
    /\ val_idx' = 0
    /\ IF QuantilesMissing(quantiles)
       THEN LET r == map_norm_quantiles(val_loader, w)
            IN  /\ val_passes' = val_passes + 1
                /\ maps_st' = r.maps_st
                /\ maps_ae' = r.maps_ae
                /\ IF r.error = "none"
                   THEN /\ quantiles' = UpdateQuantiles(quantiles, r.q)
                        /\ writes' = writes + 1
                        /\ pc' = IF pc = "configured" THEN "sanity_val" ELSE "val"
                        /\ error' = error
                   ELSE /\ pc' = "failed"
                        /\ error' = r.error
                        /\ UNCHANGED <<quantiles, writes>>
       ELSE /\ pc' = IF pc = "configured" THEN "sanity_val" ELSE "val"
            /\ UNCHANGED <<quantiles, writes, val_passes, maps_st, maps_ae, error>>
    /\ UNCHANGED <<run, max_epochs, max_steps, train_loader, val_loader, aux_n,
                   imagenet_iterator, batch_imagenet, aux_restarts, mean_std, w,
                   global_step, epoch, batch_idx, optim, last_epoch, lr_exp, stat_passes>>

\* One validation step: the normalized anomaly map is read, nothing is written.
\* After the last batch the trainer returns to the training loop, or after a
\* sanity check goes on to on_train_start.
ValidationStep ==
    /\ pc \in {"val", "sanity_val"}
    /\ val_idx < Len(val_loader)
    /\ op' = "validation_step"
    /\ UNCHANGED <<stats_acc, loss_model, logged, loss, aux_draws, aux_window>>
    /\ val_idx' = val_idx + 1
    /\ pc' = IF pc = "val"
             THEN (IF val_idx + 1 = Len(val_loader) THEN "train" ELSE "val")
             ELSE (IF val_idx + 1 = Min(num_sanity_val_steps, Len(val_loader))
                   THEN "sanity_done" ELSE "sanity_val")
    /\ UNCHANGED <<error, run, max_epochs, max_steps, train_loader, val_loader, aux_n,
                   imagenet_iterator, batch_imagenet, aux_restarts, mean_std, quantiles, w,
                   global_step, epoch, batch_idx, val_due, optim, last_epoch, lr_exp,
                   stat_passes, val_passes, writes, maps_st, maps_ae>>

Next == FitStart \/ OnTrainStart \/ TrainingStep \/ OnValidationStart \/ ValidationStep

Spec == Init /\ [][Next]_vars

(***************************************************************************)
(* The optimizer plan on its own: configure_optimizers over every budget,  *)
(* then the scheduler stepped through the horizon it was built for.        *)
(***************************************************************************)
PlanLoaders == {[i \in 1..k |-> Act(1)] : k \in 0..MaxStepsPerEpoch}

PlanConfigs == (-1..MaxEpochs) \X (-1..MaxSteps)

InitOpt ==
    InitWith(PlanConfigs, PlanLoaders, {OneGood}, {1}, {<<UnsetMeanStd, UnsetQuantiles>>},
             StubLosses)

\* scheduler.step() on the StepLR that configure_optimizers returned.
SchedulerStep ==
    /\ pc = "configured"
    /\ optim.built
    /\ last_epoch < optim.num_steps
    /\ op' = "scheduler_step"
    /\ UNCHANGED <<stats_acc, loss_model, logged, loss, aux_draws, aux_window>>
    /\ LET r == StepLRStep([step_size |-> optim.step_size, last_epoch |-> last_epoch,
                            lr_exp |-> lr_exp])
       IN  /\ last_epoch' = r.last_epoch
           /\ lr_exp' = r.lr_exp
           /\ error' = r.error
           /\ pc' = IF r.error = "none" THEN pc ELSE "failed"
    /\ UNCHANGED <<run, max_epochs, max_steps, train_loader, val_loader, aux_n,
                   imagenet_iterator, batch_imagenet, aux_restarts, mean_std, quantiles, w,
                   global_step, epoch, batch_idx, val_idx, val_due, optim, stat_passes,
                   val_passes, writes, maps_st, maps_ae>>

NextOpt == FitStart \/ SchedulerStep

SpecOpt == InitOpt /\ [][NextOpt]_vars

(***************************************************************************)
(* The quantile pass over every small validation set                       *)
(***************************************************************************)
Labels == {0, 1}

\* Every batch of k samples.
BatchesOf(k) ==
    {[image |-> im, label |-> lb] : im \in [1..k -> 0..MaxPixel], lb \in [1..k -> Labels]}

\* Every loader of exactly k samples, in non-empty batches.
RECURSIVE LoadersOf(_)
LoadersOf(k) ==
    IF k = 0 THEN {<<>>}
    ELSE UNION {{<<b>> \o rest : b \in BatchesOf(j), rest \in LoadersOf(k - j)} : j \in 1..k}

AllValLoaders == UNION {LoadersOf(k) : k \in 1..MaxSamples}

InitQ ==
    InitWith({<<-1, 1>>}, {<<Act(1)>>}, AllValLoaders, {1},
             {<<UnsetMeanStd, UnsetQuantiles>>}, StubLosses)

SpecQ == InitQ /\ [][Next]_vars

(***************************************************************************)
(* Properties                                                              *)
(***************************************************************************)
MeanStdSet == mean_std.mean # Unset /\ mean_std.std # Unset

MeanStdUnset == mean_std.mean = Unset /\ mean_std.std = Unset

QuantilesSet == \A k \in DOMAIN quantiles : quantiles[k] # Unset

QuantilesUnset == \A k \in DOMAIN quantiles : quantiles[k] = Unset

\* C1: an on_train_start invoked while the channel mean/std are already set
\* makes no pass over the training data and leaves the channel mean, the
\* channel std and the four quantiles as they were.
C1_TrainStartSkipsWhenSet ==
    [][(OnTrainStart /\ is_set(mean_std)) =>
          /\ stat_passes' = stat_passes
          /\ writes' = writes
          /\ mean_std' = mean_std
          /\ quantiles' = quantiles
          /\ pc' = "train"]_vars

\* A second on_train_start of the same model, after the first one computed
\* the statistics, has returned without another pass.
C1_Witness ==
    /\ op = "on_train_start"
    /\ run = 2
    /\ stat_passes = 1
    /\ writes = 0
    /\ pc = "train"

\* C2: every on_validation_start, whether the quantiles are unset or set,
\* runs one pass of map_norm_quantiles over the validation data and overwrites
\* all four quantiles with the result of that pass; a pass that raises (no
\* good sample to concatenate) has no result and writes nothing.
C2_ValidationStartAlwaysRecomputes ==
    [][OnValidationStart =>
          LET r == map_norm_quantiles(val_loader, w)
          IN  /\ val_passes' = val_passes + 1
              /\ IF r.error = "none"
                 THEN /\ quantiles' = r.q
                      /\ \A k \in DOMAIN quantiles' : quantiles'[k] # Unset
                      /\ writes' = writes + 1
                 ELSE quantiles' = quantiles /\ pc' = "failed"]_vars

\* Two validation phases of one run: the second on_validation_start found the
\* quantiles set, ran its pass and wrote values that differ from the first's.
C2_Witness ==
    /\ op = "on_validation_start"
    /\ pc = "val"
    /\ writes = 3
    /\ val_passes = 2
    /\ val_loader = Mixed
    /\ w = MaxW
    /\ quantiles # map_norm_quantiles(val_loader, 0).q

\* C3: in the fit loop no training_step runs while the channel mean/std are
\* unset and no validation_step runs while one of the four quantiles is unset.
C3_CalibratedBeforeUse ==
    [][/\ TrainingStep => MeanStdSet
       /\ ValidationStep => QuantilesSet]_vars

\* A run that began with nothing set has reached a validation step.
C3_Witness ==
    /\ op = "validation_step"
    /\ run = 1
    /\ stat_passes = 1
    /\ val_passes = 1
    /\ global_step >= 1

\* C4 as stated: the six fields are all unset or all set.
C4_AllOrNothing ==
    (MeanStdUnset /\ QuantilesUnset) \/ (MeanStdSet /\ QuantilesSet)

\* C4, amended: the channel mean and std are both unset or both set, and the
\* four quantiles are all unset or all set; the two groups are written by
\* different hooks, so the first may be set while the second is not.
C4_GroupsAllOrNothing ==
    /\ MeanStdUnset \/ MeanStdSet
    /\ QuantilesUnset \/ QuantilesSet

\* on_train_start has written mean and std; the quantiles are still unset.
C4_Witness ==
    /\ op = "on_train_start"
    /\ writes = 1
    /\ MeanStdSet
    /\ QuantilesUnset

\* C5 as stated: after the first write of a run no hook of the same run
\* changes a field of the normalization state.
C5_MutatedOnce ==
    [][(run' = run /\ writes >= 1) => (mean_std' = mean_std /\ quantiles' = quantiles)]_vars

\* C5, amended: the channel mean/std are written only by an on_train_start
\* that found them unset, hence at most once per run and never changed
\* afterwards; the quantiles are written by on_validation_start only, once per
\* completed pass; training_step and validation_step write nothing.
C5_WritesPerRun ==
    [][/\ (mean_std' # mean_std \/ stat_passes' # stat_passes)
            => (OnTrainStart /\ ~is_set(mean_std))
       /\ quantiles' # quantiles => OnValidationStart
       /\ writes' > writes => (OnTrainStart \/ OnValidationStart)
       /\ (OnValidationStart /\ pc' = "val") => writes' = writes + 1
       /\ (TrainingStep \/ ValidationStep)
            => (mean_std' = mean_std /\ quantiles' = quantiles /\ writes' = writes)]_vars

\* One run has written three times: on_train_start, then two validation phases.
C5_Witness ==
    /\ run = 1
    /\ writes = 3
    /\ stat_passes = 1
    /\ val_passes = 2

\* C6: every training_step obtains a batch of the auxiliary loader and no
\* StopIteration escapes it, the step after the iterator's exhaustion included.
C6_AuxBatchAlways ==
    [][TrainingStep =>
          /\ error' = "none"
          /\ pc' = "train"
          /\ batch_imagenet' \in 1..aux_n
          /\ global_step' = global_step + 1]_vars

\* The draw right after the iterator's exhaustion, the (N+1)-th of the run.
C6_Witness ==
    /\ op = "training_step"
    /\ run = 1
    /\ global_step = aux_n + 1
    /\ aux_restarts = 1
    /\ batch_imagenet \in 1..aux_n

\* C7: with at least one budget set, the horizon is max_steps when only
\* max_steps is set, max_epochs * steps_per_epoch when only max_epochs is set,
\* and the smaller of the two when both are set.
C7_Horizon ==
    (op = "configure_optimizers" /\ (max_epochs >= 0 \/ max_steps >= 0)) =>
        LET spe == Len(train_loader)
            H == optim.num_steps
        IN  /\ optim.built
            /\ (max_epochs < 0) => H = max_steps
            /\ (max_steps < 0) => H = max_epochs * spe
            /\ (max_epochs >= 0 /\ max_steps >= 0) =>
                  /\ H <= max_steps
                  /\ H <= max_epochs * spe
                  /\ H = max_steps \/ H = max_epochs * spe

\* Both budgets set and max_steps the smaller: it is the horizon.
C7_Witness ==
    /\ op = "configure_optimizers"
    /\ max_epochs >= 1
    /\ max_steps >= 1
    /\ max_steps < max_epochs * Len(train_loader)
    /\ optim.built
    /\ optim.num_steps = max_steps

\* C8: configure_optimizers raises the configuration error, and returns no
\* optimizer and no scheduler, exactly when max_epochs and max_steps are both
\* negative.
C8_ConfigurationError ==
    op = "configure_optimizers" =>
        /\ (max_epochs < 0 /\ max_steps < 0) <=> error = "ValueError"
        /\ error = "ValueError" => (~optim.built /\ pc = "failed")
        /\ error # "ValueError" => (optim.built /\ pc = "configured" /\ error = "none")

\* Both budgets unset: the error was raised.
C8_Witness ==
    /\ op = "configure_optimizers"
    /\ max_epochs < 0
    /\ max_steps < 0
    /\ error = "ValueError"
    /\ ~optim.built

\* C9 as stated: for a horizon H >= 1 the learning rate at step k of 0..H-1
\* has been multiplied by 0.1 once if k >= floor(0.95 * H) and not at all
\* before, and the scheduler raises nothing on the way.
C9_SingleDecay ==
    (optim.built /\ optim.num_steps >= 1 /\ last_epoch <= optim.num_steps - 1) =>
        /\ error = "none"
        /\ lr_exp = IF last_epoch >= (95 * optim.num_steps) \div 100 THEN 1 ELSE 0

\* The samples of a loader in order, each <<image, label>>.
AllSamples(dataloader) ==
    Flatten([b \in 1..Len(dataloader) |->
        [i \in 1..Len(dataloader[b].image) |->
            <<dataloader[b].image[i], dataloader[b].label[i]>>]])

IsGoodSample(smp) == smp[2] = 0

\* The loader with the samples of nonzero label removed from every batch.
WithoutAnomalous(dataloader) ==
    [b \in 1..Len(dataloader) |->
        LET keep == SelectSeq([i \in 1..Len(dataloader[b].image) |->
                                  <<dataloader[b].image[i], dataloader[b].label[i]>>],
                              IsGoodSample)
        IN  [image |-> [i \in 1..Len(keep) |-> keep[i][1]],
             label |-> [i \in 1..Len(keep) |-> keep[i][2]]]]

\* C10: after a pass of map_norm_quantiles, maps_st and maps_ae hold exactly
\* the maps of the samples of label 0, one per such sample and in order, and
\* the outcome (the four quantiles, or the error) is that of the same pass over
\* the data with every sample of nonzero label removed.
C10_OnlyGoodSamples ==
    op = "on_validation_start" =>
        LET good == SelectSeq(AllSamples(val_loader), IsGoodSample)
            r == map_norm_quantiles(WithoutAnomalous(val_loader), w)
        IN  /\ maps_st = [i \in 1..Len(good) |-> Forward(good[i][1], w).map_st]
            /\ maps_ae = [i \in 1..Len(good) |-> Forward(good[i][1], w).map_ae]
            /\ error = r.error
            /\ r.error = "none" => quantiles = r.q

\* A mixed validation set whose anomalous sample is an outlier: the pass kept
\* the good maps only, and the quantiles differ from those of all the maps.
C10_Witness ==
    /\ op = "on_validation_start"
    /\ error = "none"
    /\ Len(maps_st) >= 2
    /\ Len(maps_st) < Len(AllSamples(val_loader))
    /\ LET every == [i \in 1..Len(AllSamples(val_loader)) |->
                        Forward(AllSamples(val_loader)[i][1], w).map_st]
       IN  quantiles.qa_st # get_quantiles_of_maps(every).qa

(***************************************************************************)
(* The statistics pass over every small training set in every batching     *)
(***************************************************************************)
\* The teacher's output at one (batch, height, width) position.
Position(a) == [c \in Channels |-> c * a - 1]

SmallPositions == {Position(a) : a \in 0..MaxAct}

\* A position whose square has more bits than a float32 of MantissaBits holds.
BigPosition(a) == [c \in Channels |-> a]

BigPositions == {BigPosition(a) : a \in (MaxBigAct - 1)..MaxBigAct}

\* Every training set of exactly k positions drawn from ps, in non-empty batches.
RECURSIVE TrainLoadersOf(_, _)
TrainLoadersOf(ps, k) ==
    IF k = 0 THEN {<<>>}
    ELSE UNION {{<<b>> \o rest : b \in [1..j -> ps], rest \in TrainLoadersOf(ps, k - j)}
                : j \in 1..k}

AllTrainLoaders ==
    UNION {TrainLoadersOf(SmallPositions, k) \cup TrainLoadersOf(BigPositions, k)
           : k \in 0..MaxPositions}

InitStats ==
    InitWith({<<-1, 1>>}, AllTrainLoaders, {OneGood}, {1},
             {<<UnsetMeanStd, UnsetQuantiles>>}, StubLosses)

SpecStats == InitStats /\ [][Next]_vars

(***************************************************************************)
(* C11                                                                     *)
(***************************************************************************)
\* C11: teacher_channel_mean_std on a dataloader that yields no batch raises
\* (the AssertionError of "assert n is not None") and returns no mean/std, so
\* an on_train_start that runs the pass on an empty training dataloader ends
\* in that error and leaves the channel mean and std unset.
C11_EmptyPassRaises ==
    [][(OnTrainStart /\ ChannelStatsMissing(mean_std) /\ train_loader = <<>>) =>
          /\ teacher_channel_mean_std(train_loader).error = "AssertionError"
          /\ DOMAIN teacher_channel_mean_std(train_loader) = {"error", "acc"}
          /\ error' = "AssertionError"
          /\ pc' = "failed"
          /\ mean_std' = mean_std
          /\ ~is_set(mean_std')]_vars

\* on_train_start has run on an empty training dataloader with mean/std unset.
C11_Witness ==
    /\ op = "on_train_start"
    /\ train_loader = <<>>
    /\ error = "AssertionError"
    /\ stat_passes = 1
    /\ ~stats_acc.defined
    /\ MeanStdUnset

(***************************************************************************)
(* C12                                                                     *)
(***************************************************************************)
\* The activations of channel c over the concatenated training set.
ChannelValues(dataloader, c) ==
    [p \in 1..Len(Flatten(dataloader)) |-> Flatten(dataloader)[p][c]]

Squares(xs) == [p \in 1..Len(xs) |-> xs[p] * xs[p]]

\* The population variance of xs, from its definition: the mean of the squared
\* deviations, sum((n*x - S)^2) / n^3.
PopulationVariance(xs) ==
    LET n == Len(xs)
        S == SumSeq(xs)
    IN  Frac(SumSeq([p \in 1..n |-> (n * xs[p] - S) * (n * xs[p] - S)]), n * n * n)

\* No rounding happens in the pass: every square and every per-batch sum is a
\* value a float32 holds.
ExactlyRepresentable(dataloader) ==
    \A b \in 1..Len(dataloader) : \A c \in Channels :
        LET ys == [p \in 1..Len(dataloader[b]) |-> dataloader[b][p][c]]
        IN  /\ \A p \in 1..Len(ys) : Round32(ys[p] * ys[p]) = ys[p] * ys[p]
            /\ Round32(SumSeq(ys)) = SumSeq(ys)
            /\ Round32(SumSeq(Squares(ys))) = SumSeq(Squares(ys))

\* The statement itself: the accumulators and the result are those of the
\* concatenated data.
StatsOfConcatenation ==
    /\ stats_acc.defined =>
          \A c \in Channels :
              /\ stats_acc.n[c] = Len(Flatten(train_loader))
              /\ stats_acc.chanel_sum[c] = SumSeq(ChannelValues(train_loader, c))
              /\ stats_acc.chanel_sum_sqr[c] = SumSeq(Squares(ChannelValues(train_loader, c)))
    /\ (stats_acc.defined /\ MeanStdSet) =>
          \A c \in Channels :
              /\ mean_std.mean[c] =
                    Frac(SumSeq(ChannelValues(train_loader, c)), Len(Flatten(train_loader)))
              /\ mean_std.std[c] = PopulationVariance(ChannelValues(train_loader, c))

\* The same with the mean as the float32 nearest to it.
StatsOfConcatenationRounded ==
    /\ stats_acc.defined =>
          \A c \in Channels :
              /\ stats_acc.n[c] = Len(Flatten(train_loader))
              /\ stats_acc.chanel_sum[c] = SumSeq(ChannelValues(train_loader, c))
              /\ stats_acc.chanel_sum_sqr[c] = SumSeq(Squares(ChannelValues(train_loader, c)))
    /\ (stats_acc.defined /\ MeanStdSet) =>
          \A c \in Channels :
              /\ mean_std.mean[c] =
                    Float32(Frac(SumSeq(ChannelValues(train_loader, c)),
                                 Len(Flatten(train_loader))))
              /\ mean_std.std[c] = PopulationVariance(ChannelValues(train_loader, c))

AllLosses == {<<a, b, c>> : a \in 0..MaxLoss, b \in 0..MaxLoss, c \in 0..MaxLoss}

InitLoss ==
    InitWith({<<-1, 2>>}, {<<Act(1)>>}, {OneGood}, {1},
             {<<UnsetMeanStd, UnsetQuantiles>>}, AllLosses)

SpecLoss == InitLoss /\ [][Next]_vars

\* C13: whatever the three component losses the model returns, a training
\* step returns loss_st + loss_ae + loss_stae and logs the three components
\* and that total, unchanged, as train_st, train_ae, train_stae and train_loss;
\* nothing is logged or returned before the first step.
C13_LossIsSum ==
    /\ aux_draws = 0 => (loss = <<>> /\ logged = NoLogged)
    /\ aux_draws > 0 =>
          /\ loss = <<loss_model[1] + loss_model[2] + loss_model[3]>>
          /\ logged.train_st = <<loss_model[1]>>
          /\ logged.train_ae = <<loss_model[2]>>
          /\ logged.train_stae = <<loss_model[3]>>
          /\ logged.train_loss = loss

\* The step has run with the losses 2.0, 3.0 and 1.5 and returned 6.5.
C13_Witness ==
    /\ op = "training_step"
    /\ error = "none"
    /\ loss_model = <<4, 6, 3>>
    /\ loss = <<13>>
    /\ logged = [train_st |-> <<4>>, train_ae |-> <<6>>, train_stae |-> <<3>>,
                 train_loss |-> <<13>>]

(***************************************************************************)
(* C14                                                                     *)
(***************************************************************************)
NoDuplicates(s) == \A i, j \in 1..Len(s) : i # j => s[i] # s[j]

\* The draws since construction, the restarts and the current window agree:
\* the k-th restart happened at draw k * aux_n + 1, and the window drawn so
\* far plus what the iterator still holds is the dataset, each batch once.
AuxStreamPeriodic ==
    /\ aux_restarts = (IF aux_draws = 0 THEN 0 ELSE (aux_draws - 1) \div aux_n)
    /\ Len(aux_window) = aux_draws - aux_restarts * aux_n
    /\ NoDuplicates(aux_window \o imagenet_iterator)
    /\ {(aux_window \o imagenet_iterator)[i] : i \in 1..aux_n} = 1..aux_n
    /\ Len(aux_window \o imagenet_iterator) = aux_n

\* C14: every training step draws exactly one auxiliary batch; the iterator
\* is rebuilt exactly when it is exhausted, at the draws N+1, 2N+1, ..., and
\* between two restarts every batch of the dataset is drawn exactly once; the
\* restarts follow from the number of draws alone, whatever the position in
\* the primary epoch.
C14_OnePassPerWindow ==
    [][TrainingStep =>
          /\ AuxStreamPeriodic /\ AuxStreamPeriodic'
          /\ aux_draws' = aux_draws + 1
          /\ batch_imagenet' = aux_window'[Len(aux_window')]
          /\ (aux_restarts' # aux_restarts) = (imagenet_iterator = <<>>)
          /\ (aux_restarts' # aux_restarts) = (aux_draws >= 1 /\ aux_draws % aux_n = 0)
          /\ aux_restarts' \in {aux_restarts, aux_restarts + 1}]_vars

\* A restart in the middle of a primary epoch: a dataset of two auxiliary
\* batches, three draws, and the primary loader one batch into its second epoch.
C14_Witness ==
    /\ op = "training_step"
    /\ aux_n = 2
    /\ aux_draws = 3
    /\ aux_restarts = 1
    /\ Len(aux_window) = 1
    /\ Len(train_loader) = 2
    /\ epoch = 1
    /\ batch_idx = 1

(***************************************************************************)
(* C15: a calibration pass that is cut short                               *)
(***************************************************************************)
\* on_train_start whose statistics pass raises (the dataloader, the teacher or
\* an interrupt) after k whole batches: the exception leaves
\* teacher_channel_mean_std and on_train_start, and the fit ends.
TrainStartInterrupted ==
    /\ TrainStartDue
    /\ ChannelStatsMissing(mean_std)
    /\ \E k \in 0..(Len(train_loader) - 1) :
          stats_acc' = StatsLoop(NoArrays, SubSeq(train_loader, 1, k))
    /\ stat_passes' = stat_passes + 1
    /\ op' = "on_train_start"
    /\ error' = "Interrupted"
    /\ pc' = "idle"
    /\ UNCHANGED <<run, max_epochs, max_steps, train_loader, val_loader, aux_n,
                   imagenet_iterator, batch_imagenet, aux_restarts, mean_std, quantiles, w,
                   global_step, epoch, batch_idx, val_idx, val_due, optim, last_epoch,
                   lr_exp, val_passes, writes, maps_st, maps_ae, loss_model, logged, loss,
                   aux_draws, aux_window>>

\* on_validation_start whose quantile pass raises after k whole batches.
ValidationStartInterrupted ==
    /\ pc = "train"
    /\ val_due
    /\ QuantilesMissing(quantiles)
    /\ \E k \in 0..(Len(val_loader) - 1) :
          LET got == CollectMaps(SubSeq(val_loader, 1, k), w, [st |-> <<>>, ae |-> <<>>])
          IN  maps_st' = got.st /\ maps_ae' = got.ae
    /\ val_passes' = val_passes + 1
    /\ val_due' = FALSE
    /\ val_idx' = 0
    /\ op' = "on_validation_start"
    /\ error' = "Interrupted"
    /\ pc' = "idle"
    /\ UNCHANGED <<run, max_epochs, max_steps, train_loader, val_loader, aux_n,
                   imagenet_iterator, batch_imagenet, aux_restarts, mean_std, quantiles, w,
                   global_step, epoch, batch_idx, optim, last_epoch, lr_exp, stat_passes,
                   writes, stats_acc, loss_model, logged, loss, aux_draws, aux_window>>

NextAbort == Next \/ TrainStartInterrupted \/ ValidationStartInterrupted

SpecAbort == Init /\ [][NextAbort]_vars

\* C15: a statistics pass that fails or is interrupted at any batch writes
\* nothing, mean and std both stay unset; the next on_train_start runs the
\* whole pass again from the first batch with fresh accumulators and, unless
\* it fails too, writes mean and std together; a quantile pass that is cut
\* short leaves the four quantiles as they were.
C15_AbortedPassWritesNothing ==
    /\ [][(stat_passes' # stat_passes /\ error' # "none") =>
             /\ MeanStdUnset /\ mean_std' = mean_std /\ quantiles' = quantiles
             /\ writes' = writes]_vars
    /\ [][(OnTrainStart /\ MeanStdUnset) =>
             /\ stat_passes' = stat_passes + 1
             /\ stats_acc' = StatsLoop(NoArrays, train_loader)
             /\ IF train_loader = <<>> THEN mean_std' = mean_std
                ELSE /\ mean_std'.mean = teacher_channel_mean_std(train_loader).mean
                     /\ mean_std'.std = teacher_channel_mean_std(train_loader).std]_vars
    /\ [][(val_passes' # val_passes /\ error' # "none") =>
             /\ quantiles' = quantiles /\ mean_std' = mean_std /\ writes' = writes]_vars
    /\ [](MeanStdSet \/ MeanStdUnset)

\* A first fit whose statistics pass was cut after one batch, a second fit
\* that ran the pass again over both batches and calibrated the quantiles,
\* and a later quantile pass cut after one batch: the quantiles are still
\* those of the complete pass.
C15_Witness ==
    /\ op = "on_validation_start"
    /\ error = "Interrupted"
    /\ stat_passes = 2
    /\ val_passes = 2
    /\ Len(train_loader) = 2
    /\ stats_acc = StatsLoop(NoArrays, train_loader)
    /\ MeanStdSet
    /\ Len(val_loader) = 2
    /\ maps_st # <<>>
    /\ quantiles = map_norm_quantiles(val_loader, 1).q

(***************************************************************************)
(* C16                                                                     *)
(***************************************************************************)
\* C16: when the variance chanel_sum_sqr/n - mean^2 of a channel comes out
\* negative through rounding, teacher_channel_mean_std clamps it to zero
\* before the square root: the std of that channel is 0, no returned std is
\* NaN, and on_train_start completes.
C16_NegativeVarianceClamped ==
    /\ (stats_acc.defined /\ MeanStdSet) =>
          \A c \in Channels :
              /\ mean_std.std[c] # NaN
              /\ Variance(stats_acc, c)[1] < 0 => mean_std.std[c] = <<0, 1>>
    /\ (op = "on_train_start" /\ stats_acc.defined) => error = "none"

(***************************************************************************)
(* C17                                                                     *)
(***************************************************************************)
\* C17: with num_sanity_val_steps = 0 no validation phase precedes
\* on_train_start, so whenever on_validation_start runs its quantile pass the
\* channel mean and std are set: by the statistics pass of an on_train_start
\* before it, or by the checkpoint the model was restored from.
C17_ValidationAfterCalibration ==
    /\ [][OnValidationStart =>
             /\ pc = "train"
             /\ MeanStdSet
             /\ stat_passes = 0 => mean_std = RestoredMeanStd]_vars
    /\ [](val_passes > 0 => MeanStdSet)

\* The first quantile pass of a freshly constructed model, after the
\* statistics pass of on_train_start.
C17_Witness ==
    /\ op = "on_validation_start"
    /\ error = "none"
    /\ val_passes = 1
    /\ stat_passes = 1
    /\ run = 1
    /\ MeanStdSet
    /\ QuantilesSet

====
